---- MODULE Spec2Model ----
(***************************************************************************)
(* Model of mhgit's parser for `git status --porcelain=v2 --branch`        *)
(* output (src/src/status.rs): Entry::try_from decodes one line into an    *)
(* Entry, Status::try_from walks the lines of a report and accumulates     *)
(* them into a Status.  The second part models the option builders of     *)
(* src/src/commands/mod.rs and the git arguments they produce.             *)
(*                                                                         *)
(* Text is modelled by TLA+ strings, a character by a string of length 1,  *)
(* and a `Chars` iterator by the string of the characters it has not yet   *)
(* yielded.  Option values are sequences of length 0 (None) or 1 (Some).   *)
(***************************************************************************)
EXTENDS Naturals, Sequences, FiniteSets, TLC

\* Longest report (number of lines) the model feeds to Status::try_from.
MaxLines == 3

\* u8::MAX and u32::MAX, in decimal digits.
U8Max == "255"
U32Max == "4294967295"

----------------------------------------------------------------------------
(* Characters and iterator adaptors                                        *)

\* '\0', the default char: a character no input line contains.
NUL == "@"

Char(s, i) == SubSeq(s, i, i)

\* From(s, i): what is left of s from position i on ("" past the end).
From(s, i) == IF i > Len(s) THEN "" ELSE SubSeq(s, i, Len(s))

\* char::is_whitespace, on the characters the input lines are made of.
IsWhitespace(c) == c \in {" ", "\t"}

IsDigit(c) == c \in {"0", "1", "2", "3", "4", "5", "6", "7", "8", "9"}

DigitVal(c) ==
    CASE c = "0" -> 0 [] c = "1" -> 1 [] c = "2" -> 2 [] c = "3" -> 3
      [] c = "4" -> 4 [] c = "5" -> 5 [] c = "6" -> 6 [] c = "7" -> 7
      [] c = "8" -> 8 [] c = "9" -> 9

RECURSIVE DecimalValue(_)
DecimalValue(s) ==
    IF s = "" THEN 0
    ELSE DecimalValue(SubSeq(s, 1, Len(s) - 1)) * 10 + DigitVal(Char(s, Len(s)))

Some(v) == <<v>>
None == <<>>

\* The digits without their leading zeros.
RECURSIVE StripZeros(_)
StripZeros(s) ==
    IF s # "" /\ Char(s, 1) = "0" THEN StripZeros(From(s, 2)) ELSE s

\* a <= b, for two digit strings of the same length.
RECURSIVE LeqDigits(_, _)
LeqDigits(a, b) ==
    \/ a = ""
    \/ DigitVal(Char(a, 1)) < DigitVal(Char(b, 1))
    \/ Char(a, 1) = Char(b, 1) /\ LeqDigits(From(a, 2), From(b, 2))

\* The number the digits denote is at most the number max denotes.
Fits(digits, max) ==
    LET d == StripZeros(digits)
    IN  Len(d) < Len(max) \/ (Len(d) = Len(max) /\ LeqDigits(d, max))

\* str::parse::<u8>/<u32>: an optional leading '+', then one or more decimal
\* digits whose value fits the type; anything else is an error (None).
ParseUInt(s, max) ==
    LET digits == IF s # "" /\ Char(s, 1) = "+" THEN From(s, 2) ELSE s
    IN  IF digits = "" \/ \E i \in 1..Len(digits) : ~IsDigit(Char(digits, i))
        THEN None
        ELSE IF ~Fits(digits, max) THEN None
        ELSE Some(DecimalValue(digits))

\* Position of the first whitespace character of s, Len(s)+1 when it has none.
FirstWhitespace(s) ==
    IF \E i \in 1..Len(s) : IsWhitespace(Char(s, i))
    THEN CHOOSE i \in 1..Len(s) :
            /\ IsWhitespace(Char(s, i))
            /\ \A j \in 1..(i - 1) : ~IsWhitespace(Char(s, j))
    ELSE Len(s) + 1

(* A parse in progress: `kind` is "ok" while it runs, "err" once a `?`,    *)
(* ensure! or bail! has returned an error (its text in `msg`), "panic"     *)
(* once copy_from_slice has panicked; `chars` is the iterator, `tmp` the   *)
(* last value collected from it, `val` the Entry or Status being built.    *)
Cursor(chars, val) ==
    [kind |-> "ok", msg |-> "", chars |-> chars, tmp |-> "", val |-> val]

Fail(st, m) == [st EXCEPT !.kind = "err", !.msg = m]

\* chars.next().ok_or(err!())?  -- the character is kept in tmp.
NextChar(st, m) ==
    IF st.kind # "ok" THEN st
    ELSE IF st.chars = "" THEN Fail(st, m)
    ELSE [st EXCEPT !.tmp = Char(st.chars, 1), !.chars = From(st.chars, 2)]

\* ensure!(Some(c) == chars.next(), err!())
EnsureNext(st, c, m) ==
    IF st.kind # "ok" THEN st
    ELSE IF st.chars = "" THEN Fail(st, m)
    ELSE IF Char(st.chars, 1) # c
         THEN Fail([st EXCEPT !.chars = From(st.chars, 2)], m)
    ELSE [st EXCEPT !.chars = From(st.chars, 2)]

\* (&mut chars).take(n).collect(): up to n characters, fewer at the end.
Collect(st, n) ==
    IF st.kind # "ok" THEN st
    ELSE LET k == IF Len(st.chars) < n THEN Len(st.chars) ELSE n
         IN  [st EXCEPT !.tmp = SubSeq(st.chars, 1, k),
                        !.chars = From(st.chars, k + 1)]

\* (&mut chars).take(n).collect_tuple().ok_or(err!())?  -- exactly n or error.
CollectTuple(st, n, m) ==
    IF st.kind # "ok" THEN st
    ELSE IF Len(st.chars) < n THEN Fail([st EXCEPT !.chars = ""], m)
    ELSE [st EXCEPT !.tmp = SubSeq(st.chars, 1, n),
                    !.chars = From(st.chars, n + 1)]

\* (&mut chars).take_while(|c| !c.is_whitespace()).collect(): the characters
\* before the first whitespace; take_while consumes that whitespace too.
TakeWhileNotWhitespace(st) ==
    IF st.kind # "ok" THEN st
    ELSE LET k == FirstWhitespace(st.chars)
         IN  [st EXCEPT !.tmp = SubSeq(st.chars, 1, k - 1),
                        !.chars = From(st.chars, k + 1)]

\* chars.collect(): everything that is left.
CollectRest(st) ==
    IF st.kind # "ok" THEN st
    ELSE [st EXCEPT !.tmp = st.chars, !.chars = ""]

----------------------------------------------------------------------------
(* Entry                                                                   *)

\* ['\0'; 6], the default of a file mode array.
NulMode == NUL \o NUL \o NUL \o NUL \o NUL \o NUL

\* Entry { ..Default::default() }
DefaultEntry ==
    [format      |-> NUL,
     status      |-> <<NUL, NUL>>,
     sub         |-> <<FALSE, FALSE, FALSE, FALSE>>,
     file_mode   |-> <<NulMode, NulMode, NulMode>>,
     object_name |-> <<"", "">>,
     path        |-> "",
     score       |-> <<NUL, 0>>,
     orig_path   |-> "",
     stage1      |-> <<"", NulMode>>,
     stage2      |-> <<"", NulMode>>,
     stage3      |-> <<"", NulMode>>]

BadEntryFormat == "bad entry format"
UnknownEntryFormat == "unknown entry format identifier (should be one of: 1 2 u ? !)"

is_changed(e) == e.format = "1"
is_renamed(e) == e.format = "2" /\ e.score[1] = "R"
is_copied(e) == e.format = "2" /\ e.score[1] = "C"
is_unmerged(e) == e.format = "u"
is_untracked(e) == e.format = "?"
is_ignored(e) == e.format = "!"

\* entry.format = <the character just read>
SetFormat(st) ==
    IF st.kind # "ok" THEN st ELSE [st EXCEPT !.val.format = st.tmp]

\* entry.status = <the two characters collected>
SetStatus(st) ==
    IF st.kind # "ok" THEN st
    ELSE [st EXCEPT !.val.status = <<Char(st.tmp, 1), Char(st.tmp, 2)>>]

\* SetSub rejecting every character that is neither the letter of its
\* position nor one of 'N' and '.'.
SetSubStrict(st, sub) ==
    IF st.kind # "ok" THEN st
    ELSE IF \E i \in 1..4 :
               Char(sub, i) \notin {Char("SCMU", i), "N", "."}
         THEN Fail(st, BadEntryFormat)
    ELSE [st EXCEPT !.val.sub = <<Char(sub, 1) = "S", Char(sub, 2) = "C",
                                  Char(sub, 3) = "M", Char(sub, 4) = "U">>]

\* entry.sub = (sub.0 == 'S', sub.1 == 'C', sub.2 == 'M', sub.3 == 'U'); the
\* four characters were collected before the separator was skipped.
SetSub(st, sub) ==
    IF st.kind # "ok" THEN st
    ELSE [st EXCEPT !.val.sub = <<Char(sub, 1) = "S", Char(sub, 2) = "C",
                                  Char(sub, 3) = "M", Char(sub, 4) = "U">>]

\* <array>.copy_from_slice(fm.as_slice()): panics unless the slice has the
\* array's length, 6.
CopyFromSlice(st, fm, val) ==
    IF st.kind # "ok" THEN st
    ELSE IF Len(fm) # 6 THEN [st EXCEPT !.kind = "panic"]
    ELSE [st EXCEPT !.val = val]

\* ReadFileMode without the read of the character after the mode: the copy
\* is reached with whatever was collected.
ReadFileModeNoSeparator(st, i) ==
    LET fm == Collect(st, 6)
    IN  CopyFromSlice(fm, fm.tmp, [fm.val EXCEPT !.file_mode[i] = fm.tmp])

\* let fm: Vec<_> = (&mut chars).take(6).collect();
\* let _ = chars.next().ok_or(err!())?;
\* entry.file_mode.<i-1>.copy_from_slice(fm.as_slice());
ReadFileMode(st, i) ==
    LET fm == Collect(st, 6)
        sp == NextChar(fm, BadEntryFormat)
    IN  IF sp.kind # "ok" THEN sp
        ELSE CopyFromSlice(sp, fm.tmp, [sp.val EXCEPT !.file_mode[i] = fm.tmp])

\* The same three statements for entry.stage<k>.1.
ReadStageMode(st, k) ==
    LET fm == Collect(st, 6)
        sp == NextChar(fm, BadEntryFormat)
    IN  IF sp.kind # "ok" THEN sp
        ELSE CopyFromSlice(sp, fm.tmp,
                CASE k = 1 -> [sp.val EXCEPT !.stage1[2] = fm.tmp]
                  [] k = 2 -> [sp.val EXCEPT !.stage2[2] = fm.tmp]
                  [] k = 3 -> [sp.val EXCEPT !.stage3[2] = fm.tmp])

\* entry.object_name.<i-1> = (&mut chars).take_while(..).collect()
ReadObjectName(st, i) ==
    LET t == TakeWhileNotWhitespace(st)
    IN  IF t.kind # "ok" THEN t ELSE [t EXCEPT !.val.object_name[i] = t.tmp]

\* entry.stage<k>.0 = (&mut chars).take_while(..).collect()
ReadStageName(st, k) ==
    LET t == TakeWhileNotWhitespace(st)
    IN  IF t.kind # "ok" THEN t
        ELSE CASE k = 1 -> [t EXCEPT !.val.stage1[1] = t.tmp]
               [] k = 2 -> [t EXCEPT !.val.stage2[1] = t.tmp]
               [] k = 3 -> [t EXCEPT !.val.stage3[1] = t.tmp]

\* <XY> and <sub>, each with the character after it: the first statements
\* of the '1', '2' and 'u' arms.
ReadXYSub(st) ==
    LET xy  == SetStatus(CollectTuple(st, 2, BadEntryFormat))
        sp1 == NextChar(xy, BadEntryFormat)
        sub == CollectTuple(sp1, 4, BadEntryFormat)
        sp2 == NextChar(sub, BadEntryFormat)
    IN  SetSub(sp2, sub.tmp)

\* entry.path = (&mut chars).take_while(|c| !c.is_whitespace()).collect()
ReadPathToken(st) ==
    LET t == TakeWhileNotWhitespace(st)
    IN  IF t.kind # "ok" THEN t ELSE [t EXCEPT !.val.path = t.tmp]

\* ReadPathRest stopping at the first tab of what is left.
ReadPathRestUpToTab(st) ==
    LET t == CollectRest(st)
        k == IF \E i \in 1..Len(t.tmp) : Char(t.tmp, i) = "\t"
             THEN CHOOSE i \in 1..Len(t.tmp) :
                     /\ Char(t.tmp, i) = "\t"
                     /\ \A j \in 1..(i - 1) : Char(t.tmp, j) # "\t"
             ELSE Len(t.tmp) + 1
    IN  IF t.kind # "ok" THEN t
        ELSE [t EXCEPT !.val.path = SubSeq(t.tmp, 1, k - 1)]

\* entry.path = chars.collect()
ReadPathRest(st) ==
    LET t == CollectRest(st)
    IN  IF t.kind # "ok" THEN t ELSE [t EXCEPT !.val.path = t.tmp]

\* entry.orig_path = (&mut chars).collect()
ReadOrigPath(st) ==
    LET t == CollectRest(st)
    IN  IF t.kind # "ok" THEN t ELSE [t EXCEPT !.val.orig_path = t.tmp]

\* ReadScore parsing the score as a u32.
ReadScoreWide(st) ==
    LET x == NextChar(st, BadEntryFormat)
        t == TakeWhileNotWhitespace(x)
        n == ParseUInt(t.tmp, U32Max)
    IN  IF t.kind # "ok" THEN t
        ELSE IF n = None THEN Fail(t, BadEntryFormat)
        ELSE [t EXCEPT !.val.score = <<x.tmp, n[1]>>]

\* entry.score.0 = (&mut chars).next().ok_or(err!())?;
\* let tmp: String = (&mut chars).take_while(..).collect();
\* entry.score.1 = tmp.parse::<u8>().context(err!())?;
ReadScore(st) ==
    LET x == NextChar(st, BadEntryFormat)
        t == TakeWhileNotWhitespace(x)
        n == ParseUInt(t.tmp, U8Max)
    IN  IF t.kind # "ok" THEN t
        ELSE IF n = None THEN Fail(t, BadEntryFormat)
        ELSE [t EXCEPT !.val.score = <<x.tmp, n[1]>>]

\* EntryChanged with the path read as the 'u' arm reads it, up to the first
\* whitespace, instead of to the end of the line.
EntryChangedPathToken(st) ==
    ReadPathToken(
      ReadObjectName(
        ReadObjectName(
          ReadFileMode(ReadFileMode(ReadFileMode(ReadXYSub(st), 1), 2), 3),
          1),
        2))

\* The '1' arm: <XY> <sub> <mH> <mI> <mW> <hH> <hI> <path>
EntryChanged(st) ==
    ReadPathRest(
      ReadObjectName(
        ReadObjectName(
          ReadFileMode(ReadFileMode(ReadFileMode(ReadXYSub(st), 1), 2), 3),
          1),
        2))

\* The '2' arm: <XY> <sub> <mH> <mI> <mW> <hH> <hI> <X><score> <path> <origPath>
EntryRenamed(st) ==
    ReadOrigPath(
      ReadPathToken(
        ReadScore(
          ReadObjectName(
            ReadObjectName(
              ReadFileMode(ReadFileMode(ReadFileMode(ReadXYSub(st), 1), 2), 3),
              1),
            2))))

\* EntryUnmerged storing the worktree mode as the HEAD mode, file_mode.0.
EntryUnmergedHeadMode(st) ==
    ReadPathToken(
      ReadStageName(
        ReadStageName(
          ReadStageName(
            ReadFileMode(
              ReadStageMode(ReadStageMode(ReadStageMode(ReadXYSub(st), 1), 2), 3),
              1),
            1),
          2),
        3))

\* The 'u' arm: <XY> <sub> <m1> <m2> <m3> <mW> <h1> <h2> <h3> <path>
EntryUnmerged(st) ==
    ReadPathToken(
      ReadStageName(
        ReadStageName(
          ReadStageName(
            ReadFileMode(
              ReadStageMode(ReadStageMode(ReadStageMode(ReadXYSub(st), 1), 2), 3),
              3),
            1),
          2),
        3))

\* The '?' and '!' arms: <path>
EntryUntracked(st) == ReadPathToken(st)
EntryIgnored(st) == ReadPathToken(st)

\* The result of a try_from: Ok(val), Err(msg), or a panic.
Result(st) ==
    CASE st.kind = "ok"    -> [kind |-> "ok", val |-> st.val]
      [] st.kind = "err"   -> [kind |-> "err", msg |-> st.msg]
      [] st.kind = "panic" -> [kind |-> "panic"]

\* impl TryFrom<&str> for Entry
EntryTryFrom(txt) ==
    LET fmt == SetFormat(NextChar(Cursor(txt, DefaultEntry), BadEntryFormat))
        sp  == NextChar(fmt, BadEntryFormat)
    IN  Result(
          IF sp.kind # "ok" THEN sp
          ELSE CASE fmt.tmp = "1" -> EntryChanged(sp)
                 [] fmt.tmp = "2" -> EntryRenamed(sp)
                 [] fmt.tmp = "u" -> EntryUnmerged(sp)
                 [] fmt.tmp = "?" -> EntryUntracked(sp)
                 [] fmt.tmp = "!" -> EntryIgnored(sp)
                 [] OTHER -> Fail(sp, UnknownEntryFormat))

----------------------------------------------------------------------------
(* Status                                                                  *)

\* Status { ..Default::default() }
DefaultStatus ==
    [branch    |-> <<"", "">>,
     upstream  |-> <<"", 0, 0>>,
     changed   |-> <<>>,
     renamed   |-> <<>>,
     untracked |-> <<>>,
     ignored   |-> <<>>]

BadStatusFormat == "bad status format"
UnknownBranchInfo(line) == "unknown branch info " \o line
UnknownLinePrefix(line) == "unknown line prefix in: " \o line

branch_oid(s) == s.branch[1]
branch_head(s) == s.branch[2]

upstream_branch(s) ==
    IF s.upstream[1] # "" THEN Some(s.upstream[1]) ELSE None

\* upstream_behind reading the third component of the tuple.
upstream_behind_third(s) ==
    IF s.upstream[1] # "" THEN Some(s.upstream[3]) ELSE None

\* upstream_behind without the look at the upstream name.
upstream_behind_unchecked(s) == Some(s.upstream[2])

upstream_behind(s) ==
    IF s.upstream[1] # "" THEN Some(s.upstream[2]) ELSE None

\* upstream_ahead without the test for an upstream name.
upstream_ahead_unchecked(s) == Some(s.upstream[3])

upstream_ahead(s) ==
    IF s.upstream[1] # "" THEN Some(s.upstream[3]) ELSE None

\* status.branch.0 = chars.take_while(|c| !c.is_whitespace()).collect()
BranchOid(st) ==
    LET t == TakeWhileNotWhitespace(st)
    IN  IF t.kind # "ok" THEN t ELSE [t EXCEPT !.val.branch[1] = t.tmp]

\* status.branch.1 = chars.take_while(..).collect()
BranchHead(st) ==
    LET t == TakeWhileNotWhitespace(st)
    IN  IF t.kind # "ok" THEN t ELSE [t EXCEPT !.val.branch[2] = t.tmp]

\* BranchUpstream storing a fresh tuple: the name with both counts at zero.
BranchUpstreamResets(st) ==
    LET t == TakeWhileNotWhitespace(st)
    IN  IF t.kind # "ok" THEN t ELSE [t EXCEPT !.val.upstream = <<t.tmp, 0, 0>>]

\* status.upstream.0 = chars.take_while(..).collect()
BranchUpstream(st) ==
    LET t == TakeWhileNotWhitespace(st)
    IN  IF t.kind # "ok" THEN t ELSE [t EXCEPT !.val.upstream[1] = t.tmp]

\* ensure!(Some(sign) == chars.next(), err!());
\* let tmp: String = (&mut chars).take_while(..).collect();
\* status.upstream.<i-1> = tmp.parse::<u32>().context(err!())?;
ReadCount(st, sign, i) ==
    LET t == TakeWhileNotWhitespace(EnsureNext(st, sign, BadStatusFormat))
        n == ParseUInt(t.tmp, U32Max)
    IN  IF t.kind # "ok" THEN t
        ELSE IF n = None THEN Fail(t, BadStatusFormat)
        ELSE [t EXCEPT !.val.upstream[i] = n[1]]

\* BranchAb with the two counts stored the other way round.
BranchAbSwapped(st) == ReadCount(ReadCount(st, "+", 3), "-", 2)

\* The "branch.ab" arm: '+' and a count into upstream.1, then '-' and a
\* count into upstream.2.
BranchAb(st) == ReadCount(ReadCount(st, "+", 2), "-", 3)

\* The Some('#') arm of the loop body, on the line after its marker.
BranchInfo(line, acc) ==
    LET sp   == NextChar(Cursor(From(line, 2), acc), BadStatusFormat)
        info == TakeWhileNotWhitespace(sp)
    IN  IF info.kind # "ok" THEN info
        ELSE CASE info.tmp = "branch.oid"      -> BranchOid(info)
               [] info.tmp = "branch.head"     -> BranchHead(info)
               [] info.tmp = "branch.upstream" -> BranchUpstream(info)
               [] info.tmp = "branch.ab"       -> BranchAb(info)
               [] OTHER -> Fail(info, UnknownBranchInfo(line))

\* The value of `Entry::try_from(line)?` as a cursor over the status.
TryEntry(line, acc) ==
    LET r == EntryTryFrom(line)
    IN  CASE r.kind = "ok"    -> [Cursor("", acc) EXCEPT !.tmp = r.val]
          [] r.kind = "err"   -> Fail(Cursor("", acc), r.msg)
          [] r.kind = "panic" -> [Cursor("", acc) EXCEPT !.kind = "panic"]

\* ChangedEntry inserting the entry at the front of `changed`.
ChangedEntryFront(line, acc) ==
    LET e == TryEntry(line, acc)
    IN  IF e.kind # "ok" THEN e
        ELSE [e EXCEPT !.val.changed = <<e.tmp>> \o acc.changed]

\* The Some('1') arm: status.changed.push(Entry::try_from(line)?)
ChangedEntry(line, acc) ==
    LET e == TryEntry(line, acc)
    IN  IF e.kind # "ok" THEN e
        ELSE [e EXCEPT !.val.changed = Append(acc.changed, e.tmp)]

\* The Some('2') arm: status.renamed.push(Entry::try_from(line)?)
RenamedEntry(line, acc) ==
    LET e == TryEntry(line, acc)
    IN  IF e.kind # "ok" THEN e
        ELSE [e EXCEPT !.val.renamed = Append(acc.renamed, e.tmp)]

\* UntrackedEntry leaving out a path that an earlier line has pushed.
UntrackedEntryOnce(line, acc) ==
    LET sp == NextChar(Cursor(From(line, 2), acc), BadStatusFormat)
        t  == TakeWhileNotWhitespace(sp)
    IN  IF t.kind # "ok" THEN t
        ELSE IF \E i \in 1..Len(acc.untracked) : acc.untracked[i] = t.tmp
             THEN t
        ELSE [t EXCEPT !.val.untracked = Append(acc.untracked, t.tmp)]

\* The Some('?') arm: skip one character, take the path, push it.
UntrackedEntry(line, acc) ==
    LET sp == NextChar(Cursor(From(line, 2), acc), BadStatusFormat)
        t  == TakeWhileNotWhitespace(sp)
    IN  IF t.kind # "ok" THEN t
        ELSE [t EXCEPT !.val.untracked = Append(acc.untracked, t.tmp)]

\* The Some('!') arm: skip one character, take the path, push it.
IgnoredEntry(line, acc) ==
    LET sp == NextChar(Cursor(From(line, 2), acc), BadStatusFormat)
        t  == TakeWhileNotWhitespace(sp)
    IN  IF t.kind # "ok" THEN t
        ELSE [t EXCEPT !.val.ignored = Append(acc.ignored, t.tmp)]

\* UnknownPrefix ignoring the line, as the None arm does.
UnknownPrefixSkipped(line, acc) == Cursor(From(line, 2), acc)

\* The Some(_) arm: bail!("unknown line prefix in: {}", line)
UnknownPrefix(line, acc) ==
    Fail(Cursor(From(line, 2), acc), UnknownLinePrefix(line))

\* EmptyLine failing like the arms that miss a character.
EmptyLineFails(line, acc) == Fail(Cursor("", acc), BadStatusFormat)

\* The None arm: `()`, the accumulator is left as it is.
EmptyLine(line, acc) == Cursor("", acc)

\* chars.next() on a fresh line: its first character, if any.
Marker(line) == IF line = "" THEN None ELSE Some(Char(line, 1))

\* match chars.next() { .. }: the arm of the loop body that `line` selects,
\* run on the accumulator acc.
LoopBody(line, acc) ==
    CASE Marker(line) = None      -> EmptyLine(line, acc)
      [] Marker(line) = Some("#") -> BranchInfo(line, acc)
      [] Marker(line) = Some("1") -> ChangedEntry(line, acc)
      [] Marker(line) = Some("2") -> RenamedEntry(line, acc)
      [] Marker(line) = Some("?") -> UntrackedEntry(line, acc)
      [] Marker(line) = Some("!") -> IgnoredEntry(line, acc)
      [] OTHER                    -> UnknownPrefix(line, acc)

\* Position of the first "\n" of s, Len(s)+1 when it has none.
FirstNewline(s) ==
    IF \E i \in 1..Len(s) : Char(s, i) = "\n"
    THEN CHOOSE i \in 1..Len(s) :
            /\ Char(s, i) = "\n"
            /\ \A j \in 1..(i - 1) : Char(s, j) # "\n"
    ELSE Len(s) + 1

\* txt.lines(): the pieces of txt that "\n" ends, and what follows the last
\* "\n" when that is not empty.
RECURSIVE StrLines(_)
StrLines(txt) ==
    IF txt = "" THEN <<>>
    ELSE LET k == FirstNewline(txt)
         IN  <<SubSeq(txt, 1, k - 1)>> \o StrLines(From(txt, k + 1))

\* for line in <ls> { .. } Ok(status): the loop of Status::try_from over the
\* lines ls, started on the accumulator acc.
RECURSIVE TryFromLines(_, _)
TryFromLines(ls, acc) ==
    IF ls = <<>> THEN [kind |-> "ok", val |-> acc]
    ELSE LET st == LoopBody(Head(ls), acc)
         IN  IF st.kind # "ok" THEN Result(st)
             ELSE TryFromLines(Tail(ls), st.val)

\* impl TryFrom<&str> for Status
StatusTryFrom(txt) == TryFromLines(StrLines(txt), DefaultStatus)

----------------------------------------------------------------------------
(* Command options (src/src/commands/mod.rs)                               *)
(*                                                                         *)
(* An options value is a record of the struct's fields, with the struct's  *)
(* name in `kind`; a Vec<String> is a sequence of strings.                 *)

\* if cond { args.push(..); .. }
PushIf(cond, args, xs) == IF cond THEN args \o xs ELSE args

\* match flag { Some(true) => args.push(yes), Some(false) => args.push(no),
\*              None => () }  (two `if let`s in AddOptions)
PushOption(flag, args, yes, no) ==
    CASE flag = Some(TRUE)  -> Append(args, yes)
      [] flag = Some(FALSE) -> Append(args, no)
      [] OTHER              -> args

\* AddOptions::new()
AddOptionsDefault ==
    [kind |-> "AddOptions", all |-> None, chmod |-> None, pathspecs |-> <<>>]

\* AddOptions::git_args with the --chmod flag pushed before the --all flag.
AddOptions_git_args_chmod_first(o) ==
    LET chmod == PushOption(o.chmod, <<"add">>, "--chmod=+x", "--chmod=-x")
        all   == PushOption(o.all, chmod, "--all", "--no-all")
    IN  all \o o.pathspecs

\* AddOptions::git_args
AddOptions_git_args(o) ==
    LET all   == PushOption(o.all, <<"add">>, "--all", "--no-all")
        chmod == PushOption(o.chmod, all, "--chmod=+x", "--chmod=-x")
    IN  chmod \o o.pathspecs

\* CommitOptions::new()
CommitOptionsDefault ==
    [kind |-> "CommitOptions", all |-> FALSE, allow_empty |-> FALSE,
     amend |-> FALSE, files |-> <<>>, msg |-> ""]

\* CommitOptions::git_args
CommitOptions_git_args(o) ==
    LET msg         == PushIf(o.msg # "", <<"commit", "-q">>, <<"-m", o.msg>>)
        all         == PushIf(o.all, msg, <<"--all">>)
        allow_empty == PushIf(o.allow_empty, all, <<"--allow-empty">>)
        amend       == PushIf(o.amend, allow_empty, <<"--amend">>)
    IN  amend \o o.files

\* NotesOptions::add(), ::append() and ::remove(), by their action.
NotesOptionsWith(action) ==
    [kind |-> "NotesOptions", action |-> action, msg |-> "", object |-> ""]

\* NotesOptions::git_args
NotesOptions_git_args(o) ==
    LET msg == PushIf(o.msg # "", <<"notes", o.action>>, <<"-m", o.msg>>)
    IN  PushIf(o.object # "", msg, <<o.object>>)

\* PullOptions::new()
PullOptionsDefault ==
    [kind |-> "PullOptions", allow_unrelated |-> FALSE, repository |-> "",
     refspecs |-> <<>>]

\* PullOptions::git_args
PullOptions_git_args(o) ==
    LET allow_unrelated ==
            PushIf(o.allow_unrelated, <<"pull", "-q">>, <<"--allow-unrelated">>)
        repository == PushIf(o.repository # "", allow_unrelated, <<o.repository>>)
    IN  repository \o o.refspecs

\* PushOptions::new()
PushOptionsDefault ==
    [kind |-> "PushOptions", all |-> FALSE, tags |-> FALSE, force |-> FALSE,
     set_upstream |-> FALSE, repository |-> "", refspecs |-> <<>>]

\* PushOptions::git_args
PushOptions_git_args(o) ==
    LET all          == PushIf(o.all, <<"push", "-q">>, <<"--all">>)
        tags         == PushIf(o.tags, all, <<"--tags">>)
        force        == PushIf(o.force, tags, <<"--force">>)
        set_upstream == PushIf(o.set_upstream, force, <<"--set-upstream">>)
        repository   == PushIf(o.repository # "", set_upstream, <<o.repository>>)
    IN  repository \o o.refspecs

\* RemoteOptions::add()
RemoteOptionsWith(action) ==
    [kind |-> "RemoteOptions", action |-> action, master |-> "", tags |-> None,
     name |-> "", url |-> ""]

\* RemoteOptions::git_args
RemoteOptions_git_args(o) ==
    LET master == PushIf(o.master # "", <<"remote", o.action>>, <<"-m", o.master>>)
        tags   == PushOption(o.tags, master, "--tags", "--no-tags")
    IN  tags \o <<o.name, o.url>>

\* TagOptions::add() and ::delete(), by their action.
TagOptionsWith(action) ==
    [kind |-> "TagOptions", action |-> action, msg |-> "", tagname |-> "",
     object |-> ""]

\* TagOptions::git_args
TagOptions_git_args(o) ==
    LET delete  == PushIf(o.action = "delete", <<"tag">>, <<"-d">>)
        msg     == PushIf(o.msg # "", delete, <<"-m", o.msg>>)
        tagname == Append(msg, o.tagname)
    IN  PushIf(o.object # "", tagname, <<o.object>>)

\* CommandOptions::git_args, dispatched on the type of the options.
git_args(o) ==
    CASE o.kind = "AddOptions"    -> AddOptions_git_args(o)
      [] o.kind = "CommitOptions" -> CommitOptions_git_args(o)
      [] o.kind = "NotesOptions"  -> NotesOptions_git_args(o)
      [] o.kind = "PullOptions"   -> PullOptions_git_args(o)
      [] o.kind = "PushOptions"   -> PushOptions_git_args(o)
      [] o.kind = "RemoteOptions" -> RemoteOptions_git_args(o)
      [] o.kind = "TagOptions"    -> TagOptions_git_args(o)

----------------------------------------------------------------------------
(* Inputs                                                                  *)

\* The lines of the tests (tests::entry_parsing, tests::OUT).
changed1 ==
    "1 A. N... 000000 100644 100644 0000000000000000000000000000000000000000 df6d704ad8308efda4715321c69c9aff1fc95e0e TODO.md"
renamed ==
    "2 R. N... 100644 100644 100644 288d723fce8678bcdcb40bfa844a6f815d625661 288d723fce8678bcdcb40bfa844a6f815d625661 R100 LICENSE\tLICENSE~"
unmerged ==
    "u MM N... 000000 100644 100644 100755 0000000000000000000000000000000000000000 288d723fce8678bcdcb40bfa844a6f815d625661 288d723fce8678bcdcb40bfa844a6f815d625661 LICENSE"
untracked == "? ufile.txt"
ignored == "! idir/"

\* The fields of a '1' line, and of the part a '2' line shares with it.
XYs == {"A.", ".M", "MD"}
Subs == {"N...", "SCMU"}
Modes == {"000000", "100644"}
WorktreeModes == {"100644", "100755"}
ObjectNames == {"0000", "df6d"}
Paths == {"TODO.md", "my file.txt", "a\tb"}

\* A similarity score, as written and as a number.
Scores ==
    {[x |-> "R", digits |-> "100", value |-> 100],
     [x |-> "C", digits |-> "75", value |-> 75]}
TargetPaths == {"LICENSE", "my file.txt"}
OrigPaths == {"LICENSE~", "old name"}

Fields1 ==
    [xy : XYs, sub : Subs, mH : Modes, mI : Modes, mW : WorktreeModes,
     hH : ObjectNames, hI : ObjectNames, path : Paths]

Fields2 ==
    [xy : {"R."}, sub : Subs, mH : {"100644"}, mI : Modes, mW : WorktreeModes,
     hH : {"288d"}, hI : ObjectNames, score : Scores, path : TargetPaths,
     orig : OrigPaths]

\* The fields of a 'u' line.
UnmergedXYs == {"UU", "AA"}

FieldsU ==
    [xy : UnmergedXYs, sub : Subs, m1 : Modes, m2 : Modes, m3 : Modes,
     mW : WorktreeModes, h1 : ObjectNames, h2 : ObjectNames, h3 : ObjectNames,
     path : TargetPaths]

\* 1 <XY> <sub> <mH> <mI> <mW> <hH> <hI> <path>
Line1(f) ==
    "1 " \o f.xy \o " " \o f.sub \o " " \o f.mH \o " " \o f.mI \o " "
         \o f.mW \o " " \o f.hH \o " " \o f.hI \o " " \o f.path

\* 2 <XY> <sub> <mH> <mI> <mW> <hH> <hI> <X><score> <path><tab><origPath>
Line2(f) ==
    "2 " \o f.xy \o " " \o f.sub \o " " \o f.mH \o " " \o f.mI \o " "
         \o f.mW \o " " \o f.hH \o " " \o f.hI \o " "
         \o f.score.x \o f.score.digits \o " " \o f.path \o "\t" \o f.orig

\* u <XY> <sub> <m1> <m2> <m3> <mW> <h1> <h2> <h3> <path>
LineU(f) ==
    "u " \o f.xy \o " " \o f.sub \o " " \o f.m1 \o " " \o f.m2 \o " "
         \o f.m3 \o " " \o f.mW \o " " \o f.h1 \o " " \o f.h2 \o " "
         \o f.h3 \o " " \o f.path

\* The characters of the submodule codes, and the codes: every four of them.
SubChars == {"S", "C", "M", "U", "N", "."}
SubCodes == {a \o b \o c \o d : a \in SubChars, b \in SubChars,
                                c \in SubChars, d \in SubChars}

\* A line of the kind `marker` with the submodule code `code`.
SubLine(marker, code) ==
    CASE marker = "1" ->
           Line1([xy |-> "A.", sub |-> code, mH |-> "000000", mI |-> "100644",
                  mW |-> "100644", hH |-> "0000", hI |-> "df6d",
                  path |-> "TODO.md"])
      [] marker = "2" ->
           Line2([xy |-> "R.", sub |-> code, mH |-> "100644", mI |-> "100644",
                  mW |-> "100644", hH |-> "288d", hI |-> "288d",
                  score |-> [x |-> "R", digits |-> "100", value |-> 100],
                  path |-> "LICENSE", orig |-> "LICENSE~"])
      [] marker = "u" ->
           LineU([xy |-> "UU", sub |-> code, m1 |-> "000000", m2 |-> "100644",
                  m3 |-> "100644", mW |-> "100755", h1 |-> "0000",
                  h2 |-> "288d", h3 |-> "288d", path |-> "LICENSE"])

\* The decimal digits of a natural number.
RECURSIVE Decimal(_)
Decimal(n) ==
    IF n < 10 THEN SubSeq("0123456789", n + 1, n + 1)
    ELSE Decimal(n \div 10) \o SubSeq("0123456789", (n % 10) + 1, (n % 10) + 1)

\* The largest score the lines are written with.
MaxScore == 300

\* What the lines have for a score: every number up to MaxScore in plain
\* digits, numbers with leading zeros or a sign, and texts that are no number.
ScoreTokens ==
    {Decimal(n) : n \in 0..MaxScore}
      \cup {"007", "0255", "0256", "1000", "99999999999", "+7", "+255", "+256",
            "-1", "-0", "", "+", "x", "1x", "x1", "1.5", "0x10"}

\* A '2' line with the score <x><token>.
ScoreLine(x, token) ==
    Line2([xy |-> "R.", sub |-> "N...", mH |-> "100644", mI |-> "100644",
           mW |-> "100644", hH |-> "288d", hI |-> "288d",
           score |-> [x |-> x, digits |-> token], path |-> "LICENSE",
           orig |-> "LICENSE~"])

\* ? <path> and ! <path>
PathLine(marker, path) == marker \o " " \o path

\* Every prefix of a line: the line cut short at each position.
Prefixes(line) == {SubSeq(line, 1, k) : k \in 0..Len(line)}

\* The line with the character at position i replaced by c.
Replace(line, i, c) == SubSeq(line, 1, i - 1) \o c \o From(line, i + 1)

Replacements(line) ==
    {Replace(line, i, c) : i \in 1..Len(line), c \in {"x", " ", "9"}}

\* One line of every kind, cut short and altered in every position.
BaseLines ==
    {"1 A. N... 000000 100644 100644 0000 df6d TODO.md",
     "2 R. N... 100644 100644 100644 288d 288d R100 LICENSE\tLICENSE~",
     "u MM N... 000000 100644 100644 100755 0000 288d 288d LICENSE",
     untracked,
     ignored}

\* The lines Entry::try_from is called on.
EntryLines ==
    {Line1(f) : f \in Fields1}
      \cup {Line2(f) : f \in Fields2}
      \cup {LineU(f) : f \in FieldsU}
      \cup {SubLine(m, c) : m \in {"1", "2", "u"}, c \in SubCodes}
      \cup {ScoreLine(x, t) : x \in {"R", "C"}, t \in ScoreTokens}
      \cup {PathLine(m, p) : m \in {"?", "!"}, p \in Paths}
      \cup UNION {Prefixes(l) \cup Replacements(l) : l \in BaseLines}
      \cup {changed1, renamed, unmerged}
      \cup {"0 Foo/Bar.txt", "0", " 1", "# branch.head master",
            "2 R. N... 100644 100644 100644 288d 288d R256 a\tb"}

\* A count of a `# branch.ab` line, as written and as a number.
Counts ==
    {[digits |-> "0", value |-> 0], [digits |-> "1", value |-> 1],
     [digits |-> "2", value |-> 2], [digits |-> "3", value |-> 3]}

\* The <a>, <b> of the `# branch.ab +<a> -<b>` lines of the reports.
ABs ==
    {ab \in Counts \X Counts :
        <<ab[1].value, ab[2].value>> \in {<<1, 0>>, <<2, 3>>}}

UpstreamNames == {"origin/master"}

\* # branch.upstream <name>
UpstreamLine(name) == "# branch.upstream " \o name

\* # branch.ab +<a> -<b>
AbLine(ab) == "# branch.ab +" \o ab[1].digits \o " -" \o ab[2].digits

\* The lines of the reports Status::try_from is called on.
ReportLines ==
    {UpstreamLine(n) : n \in UpstreamNames}
      \cup {AbLine(ab) : ab \in ABs}
      \cup {"# branch.oid dbcb",
            "# branch.head master",
            "# branch.upstream ",
            "# branch.ab 1 -0",
            "# branch.ab +1 -0 x",
            "# branch.ab ++2 -3",
            "#xbranch.head master",
            "# branch.foo",
            "#",
            "1 A. N... 000000 100644 100644 0000 e47c Cargo.toml",
            "1 .M N... 100644 100644 100644 5675 5675 README.md",
            "1 A. N... 0000",
            "2 R. N... 100644 100644 100644 288d 288d R100 LICENSE\tLICENSE~",
            "2 R. N... 100644 100644 100644 288d 288d C75 my file\told name",
            unmerged,
            "? LICENSE~",
            "? my file.txt",
            "?",
            "! idir/",
            "! a\tb",
            "0 foo.txt",
            " x",
            ""}

----------------------------------------------------------------------------
(* The state machine                                                       *)

VARIABLES
    lines,    \* the lines txt.lines() has yielded to Status::try_from so far
    status,   \* its local `status`, the accumulator
    ret,      \* what Status::try_from returned; kind "none" while it runs
    etxt,     \* the argument of a call of Entry::try_from
    eret,     \* what that call returned; kind "none" before it
    opts,     \* an options value under construction; kind "none" before it
    calls,    \* the constructor and the setters called on it, in call order
    args      \* what git_args() returned for it; None before the call

parsevars == <<lines, status, ret, etxt, eret>>
optvars == <<opts, calls, args>>
vars == <<lines, status, ret, etxt, eret, opts, calls, args>>

NoResult == [kind |-> "none"]
NoOptions == [kind |-> "none"]

Init ==
    /\ lines = <<>>
    /\ status = DefaultStatus
    /\ ret = NoResult
    /\ etxt = ""
    /\ eret = NoResult
    /\ opts = NoOptions
    /\ calls = <<>>
    /\ args = None

\* Status::try_from is inside its loop and the text has another line.
InLoop == ret.kind = "none" /\ eret.kind = "none" /\ Len(lines) < MaxLines

\* Advance carrying on after an error: the line is dropped and the loop goes on.
AdvanceBestEffort(line, st) ==
    /\ lines' = Append(lines, line)
    /\ status' = IF st.kind = "ok" THEN st.val ELSE status
    /\ ret' = ret
    /\ UNCHANGED <<etxt, eret>>
    /\ UNCHANGED optvars

\* The loop body is through with `line`: the accumulator is as the arm left
\* it, and an error or panic of the arm is what try_from returns.
Advance(line, st) ==
    /\ lines' = Append(lines, line)
    /\ status' = st.val
    /\ ret' = IF st.kind = "ok" THEN ret ELSE Result(st)
    /\ UNCHANGED <<etxt, eret>>
    /\ UNCHANGED optvars

LineBranchInfo ==
    \E line \in ReportLines :
        InLoop /\ Marker(line) = Some("#") /\ Advance(line, BranchInfo(line, status))

LineChanged ==
    \E line \in ReportLines :
        InLoop /\ Marker(line) = Some("1") /\ Advance(line, ChangedEntry(line, status))

LineRenamed ==
    \E line \in ReportLines :
        InLoop /\ Marker(line) = Some("2") /\ Advance(line, RenamedEntry(line, status))

LineUntracked ==
    \E line \in ReportLines :
        InLoop /\ Marker(line) = Some("?") /\ Advance(line, UntrackedEntry(line, status))

LineIgnored ==
    \E line \in ReportLines :
        InLoop /\ Marker(line) = Some("!") /\ Advance(line, IgnoredEntry(line, status))

LineUnknown ==
    \E line \in ReportLines :
        /\ InLoop
        /\ Marker(line) \notin {None, Some("#"), Some("1"), Some("2"), Some("?"), Some("!")}
        /\ Advance(line, UnknownPrefix(line, status))

\* None => (): an empty line is ignored.
LineEmpty ==
    \E line \in ReportLines :
        InLoop /\ Marker(line) = None /\ Advance(line, EmptyLine(line, status))

\* The text has no further line: Ok(status).
ReturnOk ==
    /\ ret.kind = "none" /\ eret.kind = "none"
    /\ ret' = [kind |-> "ok", val |-> status]
    /\ UNCHANGED <<lines, status, etxt, eret>>
    /\ UNCHANGED optvars

\* A call of Entry::try_from on a line of its own.
CallEntryTryFrom ==
    /\ ret.kind = "none" /\ eret.kind = "none" /\ lines = <<>>
    /\ \E txt \in EntryLines :
          /\ etxt' = txt
          /\ eret' = EntryTryFrom(txt)
    /\ UNCHANGED <<lines, status, ret>>
    /\ UNCHANGED optvars

Next ==
    \/ LineBranchInfo
    \/ LineChanged
    \/ LineRenamed
    \/ LineUntracked
    \/ LineIgnored
    \/ LineUnknown
    \/ LineEmpty
    \/ ReturnOk
    \/ CallEntryTryFrom

Spec == Init /\ [][Next]_vars

----------------------------------------------------------------------------
(* The option builders as a state machine: a constructor, then setters in   *)
(* any order, then git_args().                                              *)

\* Most setter calls made on one options value.
MaxCalls == 3

\* The arguments the setters are called with.
Texts == {"", "origin"}
Items == {"foo", "bar"}
ItemLists == {<<>>, <<"foo", "bar">>}

\* A constructor returns the value `new`.
Construct(kind, f, new) ==
    /\ opts = NoOptions
    /\ opts' = new
    /\ calls' = <<[f |-> f, v |-> kind]>>
    /\ UNCHANGED args
    /\ UNCHANGED parsevars

\* The setter f is called with v on an options value of that kind and leaves
\* it as `new`.
Setter(kind, f, v, new) ==
    /\ opts.kind = kind
    /\ args = None
    /\ Len(calls) <= MaxCalls
    /\ opts' = new
    /\ calls' = Append(calls, [f |-> f, v |-> v])
    /\ UNCHANGED args
    /\ UNCHANGED parsevars

AddOptions_new == Construct("AddOptions", "new", AddOptionsDefault)

AddOptions_all ==
    \E val \in BOOLEAN :
        Setter("AddOptions", "all", val, [opts EXCEPT !.all = Some(val)])

AddOptions_chmod ==
    \E val \in BOOLEAN :
        Setter("AddOptions", "chmod", val, [opts EXCEPT !.chmod = Some(val)])

AddOptions_pathspec ==
    \E pathspec \in Items :
        Setter("AddOptions", "pathspec", pathspec, [opts EXCEPT !.pathspecs = Append(@, pathspec)])

AddOptions_pathspecs ==
    \E pathspecs \in ItemLists :
        Setter("AddOptions", "pathspecs", pathspecs, [opts EXCEPT !.pathspecs = @ \o pathspecs])

CommitOptions_new == Construct("CommitOptions", "new", CommitOptionsDefault)

CommitOptions_all ==
    \E val \in BOOLEAN :
        Setter("CommitOptions", "all", val, [opts EXCEPT !.all = val])

CommitOptions_allow_empty ==
    \E val \in BOOLEAN :
        Setter("CommitOptions", "allow_empty", val, [opts EXCEPT !.allow_empty = val])

CommitOptions_amend ==
    \E val \in BOOLEAN :
        Setter("CommitOptions", "amend", val, [opts EXCEPT !.amend = val])

CommitOptions_file ==
    \E file \in Items :
        Setter("CommitOptions", "file", file, [opts EXCEPT !.files = Append(@, file)])

CommitOptions_files ==
    \E files \in ItemLists :
        Setter("CommitOptions", "files", files, [opts EXCEPT !.files = @ \o files])

CommitOptions_message ==
    \E msg \in Texts :
        Setter("CommitOptions", "message", msg, [opts EXCEPT !.msg = msg])

NotesOptions_add == Construct("NotesOptions", "add", NotesOptionsWith("add"))

NotesOptions_append == Construct("NotesOptions", "append", NotesOptionsWith("append"))

NotesOptions_remove == Construct("NotesOptions", "remove", NotesOptionsWith("remove"))

NotesOptions_message ==
    \E msg \in Texts :
        Setter("NotesOptions", "message", msg, [opts EXCEPT !.msg = msg])

NotesOptions_object ==
    \E object \in Texts :
        Setter("NotesOptions", "object", object, [opts EXCEPT !.object = object])

PullOptions_new == Construct("PullOptions", "new", PullOptionsDefault)

PullOptions_allow_unrelated ==
    \E val \in BOOLEAN :
        Setter("PullOptions", "allow_unrelated", val, [opts EXCEPT !.allow_unrelated = val])

PullOptions_refspec ==
    \E file \in Items :
        Setter("PullOptions", "refspec", file, [opts EXCEPT !.refspecs = Append(@, file)])

PullOptions_refspecs ==
    \E files \in ItemLists :
        Setter("PullOptions", "refspecs", files, [opts EXCEPT !.refspecs = @ \o files])

PullOptions_remote ==
    \E repo \in Texts :
        Setter("PullOptions", "remote", repo, [opts EXCEPT !.repository = repo])

PushOptions_new == Construct("PushOptions", "new", PushOptionsDefault)

PushOptions_all ==
    \E val \in BOOLEAN :
        Setter("PushOptions", "all", val, [opts EXCEPT !.all = val])

PushOptions_tags ==
    \E val \in BOOLEAN :
        Setter("PushOptions", "tags", val, [opts EXCEPT !.tags = val])

PushOptions_force ==
    \E val \in BOOLEAN :
        Setter("PushOptions", "force", val, [opts EXCEPT !.force = val])

PushOptions_set_upstream ==
    \E val \in BOOLEAN :
        Setter("PushOptions", "set_upstream", val, [opts EXCEPT !.set_upstream = val])

PushOptions_refspec ==
    \E file \in Items :
        Setter("PushOptions", "refspec", file, [opts EXCEPT !.refspecs = Append(@, file)])

PushOptions_refspecs ==
    \E files \in ItemLists :
        Setter("PushOptions", "refspecs", files, [opts EXCEPT !.refspecs = @ \o files])

PushOptions_remote ==
    \E repo \in Texts :
        Setter("PushOptions", "remote", repo, [opts EXCEPT !.repository = repo])

RemoteOptions_add == Construct("RemoteOptions", "add", RemoteOptionsWith("add"))

RemoteOptions_master ==
    \E name \in Texts :
        Setter("RemoteOptions", "master", name, [opts EXCEPT !.master = name])

RemoteOptions_tags ==
    \E val \in BOOLEAN :
        Setter("RemoteOptions", "tags", val, [opts EXCEPT !.tags = Some(val)])

RemoteOptions_name ==
    \E name \in Texts :
        Setter("RemoteOptions", "name", name, [opts EXCEPT !.name = name])

RemoteOptions_url ==
    \E url \in Texts :
        Setter("RemoteOptions", "url", url, [opts EXCEPT !.url = url])

TagOptions_add == Construct("TagOptions", "add", TagOptionsWith("add"))

TagOptions_delete == Construct("TagOptions", "delete", TagOptionsWith("delete"))

TagOptions_msg ==
    \E msg \in Texts :
        Setter("TagOptions", "msg", msg, [opts EXCEPT !.msg = msg])

TagOptions_tagname ==
    \E name \in Texts :
        Setter("TagOptions", "tagname", name, [opts EXCEPT !.tagname = name])

TagOptions_commit ==
    \E commit \in Texts :
        Setter("TagOptions", "commit", commit, [opts EXCEPT !.object = commit])

TagOptions_object ==
    \E object \in Texts :
        Setter("TagOptions", "object", object, [opts EXCEPT !.object = object])

\* options.git_args(): the options are left as they are.
CallGitArgs ==
    /\ opts # NoOptions
    /\ args = None
    /\ args' = Some(git_args(opts))
    /\ UNCHANGED <<opts, calls>>
    /\ UNCHANGED parsevars

OptionsNext ==
    \/ AddOptions_new
    \/ AddOptions_all
    \/ AddOptions_chmod
    \/ AddOptions_pathspec
    \/ AddOptions_pathspecs
    \/ CommitOptions_new
    \/ CommitOptions_all
    \/ CommitOptions_allow_empty
    \/ CommitOptions_amend
    \/ CommitOptions_file
    \/ CommitOptions_files
    \/ CommitOptions_message
    \/ NotesOptions_add
    \/ NotesOptions_append
    \/ NotesOptions_remove
    \/ NotesOptions_message
    \/ NotesOptions_object
    \/ PullOptions_new
    \/ PullOptions_allow_unrelated
    \/ PullOptions_refspec
    \/ PullOptions_refspecs
    \/ PullOptions_remote
    \/ PushOptions_new
    \/ PushOptions_all
    \/ PushOptions_tags
    \/ PushOptions_force
    \/ PushOptions_set_upstream
    \/ PushOptions_refspec
    \/ PushOptions_refspecs
    \/ PushOptions_remote
    \/ RemoteOptions_add
    \/ RemoteOptions_master
    \/ RemoteOptions_tags
    \/ RemoteOptions_name
    \/ RemoteOptions_url
    \/ TagOptions_add
    \/ TagOptions_delete
    \/ TagOptions_msg
    \/ TagOptions_tagname
    \/ TagOptions_commit
    \/ TagOptions_object
    \/ CallGitArgs

OptionsSpec == Init /\ [][OptionsNext]_vars

----------------------------------------------------------------------------
(* Properties                                                              *)

\* Status::try_from has not returned an error (nor panicked).
NotAborted == ret.kind \in {"none", "ok"}

\* The lines among ls whose marker is m, in order.
WithMarker(ls, m) == SelectSeq(ls, LAMBDA l : Marker(l) = Some(m))

\* What Entry::try_from decodes each of the lines ls into.
Decoded(ls) == [i \in 1..Len(ls) |-> EntryTryFrom(ls[i]).val]

DecodedPaths(ls) == [i \in 1..Len(ls) |-> EntryTryFrom(ls[i]).val.path]

\* The collections of s are what the lines ls decode into, kind by kind.
Accumulates(s, ls) ==
    /\ s.changed = Decoded(WithMarker(ls, "1"))
    /\ s.renamed = Decoded(WithMarker(ls, "2"))
    /\ s.untracked = DecodedPaths(WithMarker(ls, "?"))
    /\ s.ignored = DecodedPaths(WithMarker(ls, "!"))

\* C1: while Status::try_from has not failed on a line, `changed` is the
\* sequence of the decoded '1' lines read so far, `renamed` that of the '2'
\* lines, `untracked` the decoded paths of the '?' lines and `ignored` those
\* of the '!' lines, each in the order of the lines: every such line is in
\* exactly one collection, once; and the Status returned is that accumulator.
C1_Accumulation ==
    /\ NotAborted => Accumulates(status, lines)
    /\ ret.kind = "ok" => Accumulates(ret.val, lines)

\* A report of three lines was parsed into two distinct changed entries, in
\* the order of their lines, and one untracked path.
C1_Witness ==
    /\ ret.kind = "ok"
    /\ Len(lines) = 3
    /\ Len(ret.val.changed) = 2
    /\ ret.val.changed[1].path = "Cargo.toml"
    /\ ret.val.changed[2].path = "README.md"
    /\ ret.val.untracked = <<"LICENSE~">>

\* Entry::try_from was called on the '1' line made of the fields f.
Parsed1(f) == eret.kind # "none" /\ etxt = Line1(f)

\* C2: a well-formed '1' line decodes into an entry with format '1', the two
\* status characters, the three modes and the two object ids in line order,
\* and the trailing field, spaces and tabs included, as the path; the line of
\* the test gives ('A', '.'), 000000, 100644, 100644 and TODO.md.
C2_ChangedFields ==
    /\ (eret.kind # "none" /\ Marker(etxt) = Some("1")) => \A f \in Fields1 :
          Parsed1(f) =>
            /\ eret.kind = "ok"
            /\ eret.val.format = "1"
            /\ eret.val.status = <<Char(f.xy, 1), Char(f.xy, 2)>>
            /\ eret.val.file_mode = <<f.mH, f.mI, f.mW>>
            /\ eret.val.object_name = <<f.hH, f.hI>>
            /\ eret.val.path = f.path
    /\ (eret.kind # "none" /\ etxt = changed1) =>
            /\ eret.kind = "ok"
            /\ eret.val.status = <<"A", ".">>
            /\ eret.val.file_mode = <<"000000", "100644", "100644">>
            /\ eret.val.object_name =
                 <<"0000000000000000000000000000000000000000",
                   "df6d704ad8308efda4715321c69c9aff1fc95e0e">>
            /\ eret.val.path = "TODO.md"

\* A '1' line whose three modes and two object ids differ and whose path
\* holds a space was decoded.
C2_Witness ==
    /\ Parsed1([xy |-> "MD", sub |-> "SCMU", mH |-> "000000", mI |-> "100644",
                mW |-> "100755", hH |-> "0000", hI |-> "df6d",
                path |-> "my file.txt"])
    /\ eret.kind = "ok"

\* Entry::try_from was called on the '2' line made of the fields f.
Parsed2(f) == eret.kind # "none" /\ etxt = Line2(f)

\* C3: a well-formed '2' line decodes into the rename/copy marker, the
\* score, the target path that precedes the tab and the original path that
\* follows it, also when either path contains spaces.
C3_RenamedFields ==
    \A f \in Fields2 :
        Parsed2(f) =>
          /\ eret.kind = "ok"
          /\ eret.val.score = <<f.score.x, f.score.value>>
          /\ eret.val.path = f.path
          /\ eret.val.orig_path = f.orig

\* The sub-kind of a '#' line: the text after the marker and one more
\* character, up to the next whitespace.
InfoKind(l) == SubSeq(l, 3, FirstWhitespace(From(l, 3)) + 1)

IsInfo(l, kind) == Marker(l) = Some("#") /\ Len(l) >= 2 /\ InfoKind(l) = kind

\* The '#' lines of that sub-kind among the lines read, in order.
WithInfo(kind) == SelectSeq(lines, LAMBDA l : IsInfo(l, kind))

\* The report read holds one `# branch.upstream` line, naming `name`, and one
\* `# branch.ab` line, with the counts ab, and Status::try_from returned Ok.
ParsedUpstream(name, ab) ==
    /\ ret.kind = "ok"
    /\ WithInfo("branch.upstream") = <<UpstreamLine(name)>>
    /\ WithInfo("branch.ab") = <<AbLine(ab)>>

\* C4 as stated: upstream_ahead() is the '+' count, upstream_behind() the '-'
\* count.
C4_AheadIsPlus ==
    \A name \in UpstreamNames, ab \in ABs :
        ParsedUpstream(name, ab) =>
          /\ upstream_ahead(ret.val) = Some(ab[1].value)
          /\ upstream_behind(ret.val) = Some(ab[2].value)

\* C4, amended: for a report with `# branch.upstream <name>` and
\* `# branch.ab +<a> -<b>`, upstream_behind() is Some(a), the '+' count, and
\* upstream_ahead() is Some(b), the '-' count.
C4_BehindIsPlus ==
    \A name \in UpstreamNames, ab \in ABs :
        ParsedUpstream(name, ab) =>
          /\ upstream_behind(ret.val) = Some(ab[1].value)
          /\ upstream_ahead(ret.val) = Some(ab[2].value)

\* A report with an upstream and `# branch.ab +2 -3` was parsed.
C4_Witness ==
    \E name \in UpstreamNames, ab \in ABs :
        /\ ParsedUpstream(name, ab)
        /\ ab[1].value = 2 /\ ab[2].value = 3

\* C5: as the `status` test asserts, the stored upstream tuple is
\* (name, a, b) for `# branch.ab +<a> -<b>`, upstream_behind() is its second
\* component and upstream_ahead() its third; `+1 -0` gives (name, 1, 0),
\* Some(1) and Some(0).
C5_UpstreamTuple ==
    \A name \in UpstreamNames, ab \in ABs :
        ParsedUpstream(name, ab) =>
          /\ ret.val.upstream = <<name, ab[1].value, ab[2].value>>
          /\ upstream_behind(ret.val) = Some(ret.val.upstream[2])
          /\ upstream_ahead(ret.val) = Some(ret.val.upstream[3])
          /\ AbLine(ab) = "# branch.ab +1 -0" =>
                /\ ret.val.upstream = <<name, 1, 0>>
                /\ upstream_behind(ret.val) = Some(1)
                /\ upstream_ahead(ret.val) = Some(0)

\* The header of the test was parsed: upstream origin/master, +1 -0.
C5_Witness ==
    /\ ret.kind = "ok"
    /\ lines = <<"# branch.head master", "# branch.upstream origin/master",
                 "# branch.ab +1 -0">>

\* The three upstream accessors agree on s.
SomeTogether(s) ==
    /\ (upstream_behind(s) # None) <=> (upstream_branch(s) # None)
    /\ (upstream_ahead(s) # None) <=> (upstream_branch(s) # None)

\* C6: on every Status the parser builds or returns, the default one
\* included, upstream_behind() and upstream_ahead() are Some exactly when
\* upstream_branch() is.
C6_SomeTogether ==
    /\ SomeTogether(status)
    /\ ret.kind = "ok" => SomeTogether(ret.val)

\* A Status with counts but no upstream name was returned: all three
\* accessors give None there.
C6_Witness ==
    /\ ret.kind = "ok"
    /\ ret.val.upstream = <<"", 2, 3>>
    /\ upstream_branch(ret.val) = None

\* The record markers of the report format.
RecordMarkers == {"#", "1", "2", "u", "?", "!"}

\* A non-empty line whose first character is no record marker.
Unrecognized(l) == l # "" /\ Char(l, 1) \notin RecordMarkers

\* Status::try_from never goes on after a line with an unrecognized marker:
\* such a line is the last one read and the parse has returned the error
\* that names it.
UnrecognizedAborts ==
    \A i \in 1..Len(lines) :
        Unrecognized(lines[i]) =>
          /\ i = Len(lines)
          /\ ret = [kind |-> "err", msg |-> UnknownLinePrefix(lines[i])]

\* C7 as stated: a line with an unrecognized marker makes Status::try_from
\* return an error, and Entry::try_from on the line alone return the error
\* `unknown entry format identifier (should be one of: 1 2 u ? !)`.
C7_UnknownFormatText ==
    /\ UnrecognizedAborts
    /\ (eret.kind # "none" /\ Unrecognized(etxt)) =>
          eret = [kind |-> "err", msg |-> UnknownEntryFormat]

\* C7, amended: a line with an unrecognized marker makes Status::try_from
\* return an error (never a panic, never a skip), and Entry::try_from on the
\* line alone return an error: `unknown entry format identifier (should be
\* one of: 1 2 u ? !)` when the line has a second character,
\* `bad entry format` when the marker is all there is.
C7_UnknownMarkerFails ==
    /\ UnrecognizedAborts
    /\ (eret.kind # "none" /\ Unrecognized(etxt)) =>
          eret = [kind |-> "err",
                  msg  |-> IF Len(etxt) >= 2 THEN UnknownEntryFormat
                           ELSE BadEntryFormat]

\* A report whose second line is `0 foo.txt` was rejected at that line.
C7_Witness ==
    /\ lines = <<"? LICENSE~", "0 foo.txt">>
    /\ ret.kind = "err"

\* C8: reading a well-formed 'u' line does not make Status::try_from fail:
\* the line is routed to the unmerged decoder.
C8_UnmergedAccepted ==
    (lines # <<>> /\ lines[Len(lines)] = unmerged) => NotAborted

\* C9: the path decoded from a '?' or '!' line is all of the line after the
\* marker and the one separating character, whitespace included, both as
\* Entry::try_from's path and as what Status::try_from pushes.
C9_PathVerbatim ==
    /\ \A m \in {"?", "!"}, p \in Paths :
          (eret.kind # "none" /\ etxt = PathLine(m, p)) =>
              eret.kind = "ok" /\ eret.val.path = p
    /\ \A i \in 1..Len(lines) :
          (NotAborted /\ Marker(lines[i]) \in {Some("?"), Some("!")}) =>
              LET n == Len(WithMarker(SubSeq(lines, 1, i), Char(lines[i], 1)))
                  c == IF Marker(lines[i]) = Some("?") THEN status.untracked
                       ELSE status.ignored
              IN  c[n] = From(lines[i], 3)

\* The decoding of the line, which no other line bears on, succeeds.
Decodes(line) == LoopBody(line, DefaultStatus).kind = "ok"

\* C10: parsing is all-or-nothing.  A line that fails to decode is the last
\* line Status::try_from reads and makes it return an error, whatever was
\* read before it; and an Ok(Status) is returned only when every line read
\* decoded.
C10_AllOrNothing ==
    /\ \A i \in 1..Len(lines) :
          ~Decodes(lines[i]) => (i = Len(lines) /\ ret.kind = "err")
    /\ ret.kind = "ok" => \A i \in 1..Len(lines) : Decodes(lines[i])

\* Two lines decoded, the third did not, and the parse returned an error.
C10_Witness ==
    /\ Len(lines) = 3
    /\ Decodes(lines[1]) /\ lines[1] # ""
    /\ Decodes(lines[2]) /\ lines[2] # ""
    /\ ~Decodes(lines[3])
    /\ ret.kind = "err"

\* The text t occurs in the text s.
Contains(s, t) ==
    \/ t = ""
    \/ \E i \in 1..(Len(s) - Len(t) + 1) : SubSeq(s, i, i + Len(t) - 1) = t

\* C11: every error of Status::try_from carries the text of the line it
\* stopped at, and every error of Entry::try_from the text it was called on.
C11_ErrorCarriesLine ==
    /\ ret.kind = "err" => Contains(ret.msg, lines[Len(lines)])
    /\ eret.kind = "err" => Contains(eret.msg, etxt)

\* The text whose lines are ls, each ended by "\n".
RECURSIVE Unlines(_)
Unlines(ls) == IF ls = <<>> THEN "" ELSE Head(ls) \o "\n" \o Unlines(Tail(ls))

\* The same text without its final "\n".
JoinLines(ls) ==
    IF ls = <<>> THEN "" ELSE SubSeq(Unlines(ls), 1, Len(Unlines(ls)) - 1)

\* ls without its empty lines.
NonEmpty(ls) == SelectSeq(ls, LAMBDA l : l # "")

\* C12: empty lines have no effect.  What Status::try_from returns for the
\* text of the lines read, each ended by a newline, is what it returns for
\* that text with every empty line and the final newline removed; and for
\* the empty text it returns the default Status, which is Status::new().
C12_EmptyLinesIgnored ==
    /\ StatusTryFrom("") = [kind |-> "ok", val |-> DefaultStatus]
    /\ ret.kind # "none" =>
          /\ StatusTryFrom(Unlines(lines)) = ret
          /\ StatusTryFrom(JoinLines(NonEmpty(lines))) = ret
          /\ lines = <<>> => ret = [kind |-> "ok", val |-> DefaultStatus]

\* A report with an empty line between two records and a final newline was
\* parsed.
C12_Witness ==
    /\ ret.kind = "ok"
    /\ lines = <<"? LICENSE~", "", "! idir/">>
    /\ Unlines(lines) = "? LICENSE~\n\n! idir/\n"
    /\ StrLines(Unlines(lines)) = lines

\* Entry::try_from was called on the 'u' line made of the fields f.
ParsedU(f) == eret.kind # "none" /\ etxt = LineU(f)

\* The text before the first whitespace of s.
FirstToken(s) == SubSeq(s, 1, FirstWhitespace(s) - 1)

\* C13: a well-formed 'u' line decodes into an entry with format 'u', the
\* two status characters, the submodule flags, the three stage modes and
\* stage object ids in line order, the worktree mode as third file mode and
\* a path taken from the line's path (all of it when it holds no whitespace);
\* the HEAD and index modes stay six NULs, the HEAD and index object ids
\* empty, the score ('\0', 0) and orig_path empty.  The line of the test
\* gives ('M', 'M'), the stages of the test, 100755 and LICENSE.
C13_UnmergedFrame ==
    /\ (eret.kind # "none" /\ Marker(etxt) = Some("u")) => \A f \in FieldsU :
          ParsedU(f) =>
            /\ eret.kind = "ok"
            /\ eret.val.format = "u"
            /\ eret.val.status = <<Char(f.xy, 1), Char(f.xy, 2)>>
            /\ eret.val.sub = <<Char(f.sub, 1) = "S", Char(f.sub, 2) = "C",
                                Char(f.sub, 3) = "M", Char(f.sub, 4) = "U">>
            /\ eret.val.stage1 = <<f.h1, f.m1>>
            /\ eret.val.stage2 = <<f.h2, f.m2>>
            /\ eret.val.stage3 = <<f.h3, f.m3>>
            /\ eret.val.file_mode = <<NulMode, NulMode, f.mW>>
            /\ eret.val.path # "" /\ eret.val.path = FirstToken(f.path)
            /\ eret.val.object_name = <<"", "">>
            /\ eret.val.score = <<NUL, 0>>
            /\ eret.val.orig_path = ""
    /\ (eret.kind # "none" /\ etxt = unmerged) =>
            /\ eret.kind = "ok"
            /\ eret.val =
                 [DefaultEntry EXCEPT
                    !.format = "u",
                    !.status = <<"M", "M">>,
                    !.file_mode = <<NulMode, NulMode, "100755">>,
                    !.path = "LICENSE",
                    !.stage1 = <<"0000000000000000000000000000000000000000", "000000">>,
                    !.stage2 = <<"288d723fce8678bcdcb40bfa844a6f815d625661", "100644">>,
                    !.stage3 = <<"288d723fce8678bcdcb40bfa844a6f815d625661", "100644">>]

\* A 'u' line whose stage modes and stage object ids are not all alike and
\* whose submodule flags are all set was decoded.
C13_Witness ==
    /\ ParsedU([xy |-> "UU", sub |-> "SCMU", m1 |-> "000000", m2 |-> "100644",
                m3 |-> "100644", mW |-> "100755", h1 |-> "0000", h2 |-> "df6d",
                h3 |-> "0000", path |-> "LICENSE"])
    /\ eret.kind = "ok"
    /\ eret.val.stage2 = <<"df6d", "100644">>

\* Entry::try_from was called on a '1', '2' or 'u' line whose submodule code
\* is one of SubCodes.
ParsedSub ==
    /\ eret.kind # "none"
    /\ Len(etxt) >= 9
    /\ Char(etxt, 1) \in {"1", "2", "u"}
    /\ SubSeq(etxt, 6, 9) \in SubCodes
    /\ etxt = SubLine(Char(etxt, 1), SubSeq(etxt, 6, 9))

\* C14: on '1', '2' and 'u' lines the submodule code is decoded by position
\* and no code is rejected: the entry's four flags are (1st = 'S', 2nd = 'C',
\* 3rd = 'M', 4th = 'U'), any other character giving false; `N...` gives all
\* false and `SCMU` all true.
C14_SubPositional ==
    ParsedSub =>
        LET code == SubSeq(etxt, 6, 9)
        IN  /\ eret.kind = "ok"
            /\ eret.val.sub[1] = (Char(code, 1) = "S")
            /\ eret.val.sub[2] = (Char(code, 2) = "C")
            /\ eret.val.sub[3] = (Char(code, 3) = "M")
            /\ eret.val.sub[4] = (Char(code, 4) = "U")
            /\ code = "N..." => eret.val.sub = <<FALSE, FALSE, FALSE, FALSE>>
            /\ code = "SCMU" => eret.val.sub = <<TRUE, TRUE, TRUE, TRUE>>

\* A '2' line whose code has the right letters in the wrong places and one in
\* its place was decoded: only the fourth flag is set.
C14_Witness ==
    /\ ParsedSub
    /\ etxt = SubLine("2", "CSSU")
    /\ eret.kind = "ok"
    /\ eret.val.sub = <<FALSE, FALSE, FALSE, TRUE>>

\* The name of the git subcommand an options type stands for.
Subcommand(kind) ==
    CASE kind = "AddOptions"    -> "add"
      [] kind = "CommitOptions" -> "commit"
      [] kind = "NotesOptions"  -> "notes"
      [] kind = "PullOptions"   -> "pull"
      [] kind = "PushOptions"   -> "push"
      [] kind = "RemoteOptions" -> "remote"
      [] kind = "TagOptions"    -> "tag"

\* The argument of the last call of one of the setters fs, if there was one.
LastOf(fs) ==
    LET made == {i \in 2..Len(calls) : calls[i].f \in fs}
    IN  IF made = {} THEN None
        ELSE Some(calls[CHOOSE i \in made : \A j \in made : j <= i].v)

\* The items the calls cs of the setters `one` (an item a call) and `many`
\* (a list of items a call) added, in call order.
RECURSIVE Added(_, _, _)
Added(cs, one, many) ==
    IF cs = <<>> THEN <<>>
    ELSE (CASE Head(cs).f = one  -> <<Head(cs).v>>
            [] Head(cs).f = many -> Head(cs).v
            [] OTHER             -> <<>>) \o Added(Tail(cs), one, many)

\* The arguments that come of the last call of a setter: a flag for true and
\* one for false, a flag for true only, a flag with a non-empty text, a
\* non-empty text alone, a text even when empty.
YesNo(last, yes, no) ==
    IF last = None THEN <<>> ELSE IF last[1] THEN <<yes>> ELSE <<no>>
Switch(last, flag) == IF last = Some(TRUE) THEN <<flag>> ELSE <<>>
Valued(flag, last) ==
    IF last = None \/ last = Some("") THEN <<>> ELSE <<flag, last[1]>>
Plain(last) == IF last = None \/ last = Some("") THEN <<>> ELSE last
Always(last) == IF last = None THEN <<"">> ELSE last

\* The arguments in the fixed order of the options type, from the calls made
\* and not from the order they were made in.
ExpectedArgs ==
    LET setters == Tail(calls)
    IN  CASE opts.kind = "AddOptions" ->
               <<"add">> \o YesNo(LastOf({"all"}), "--all", "--no-all")
                 \o YesNo(LastOf({"chmod"}), "--chmod=+x", "--chmod=-x")
                 \o Added(setters, "pathspec", "pathspecs")
          [] opts.kind = "CommitOptions" ->
               <<"commit", "-q">> \o Valued("-m", LastOf({"message"}))
                 \o Switch(LastOf({"all"}), "--all")
                 \o Switch(LastOf({"allow_empty"}), "--allow-empty")
                 \o Switch(LastOf({"amend"}), "--amend")
                 \o Added(setters, "file", "files")
          [] opts.kind = "NotesOptions" ->
               <<"notes", calls[1].f>> \o Valued("-m", LastOf({"message"}))
                 \o Plain(LastOf({"object"}))
          [] opts.kind = "PullOptions" ->
               <<"pull", "-q">>
                 \o Switch(LastOf({"allow_unrelated"}), "--allow-unrelated")
                 \o Plain(LastOf({"remote"}))
                 \o Added(setters, "refspec", "refspecs")
          [] opts.kind = "PushOptions" ->
               <<"push", "-q">> \o Switch(LastOf({"all"}), "--all")
                 \o Switch(LastOf({"tags"}), "--tags")
                 \o Switch(LastOf({"force"}), "--force")
                 \o Switch(LastOf({"set_upstream"}), "--set-upstream")
                 \o Plain(LastOf({"remote"}))
                 \o Added(setters, "refspec", "refspecs")
          [] opts.kind = "RemoteOptions" ->
               <<"remote", calls[1].f>> \o Valued("-m", LastOf({"master"}))
                 \o YesNo(LastOf({"tags"}), "--tags", "--no-tags")
                 \o Always(LastOf({"name"})) \o Always(LastOf({"url"}))
          [] opts.kind = "TagOptions" ->
               <<"tag">> \o (IF calls[1].f = "delete" THEN <<"-d">> ELSE <<>>)
                 \o Valued("-m", LastOf({"msg"}))
                 \o Always(LastOf({"tagname"}))
                 \o Plain(LastOf({"commit", "object"}))

\* C15: after any sequence of setter calls on an options value of any of the
\* seven types, git_args() returns at least one element, the first being the
\* name of the subcommand; and the arguments it returned are those of the
\* type's fixed order (for AddOptions the --all/--no-all flag, the --chmod
\* flag, then the pathspecs as added), whatever order the setters were
\* called in.
C15_GitArgsOrder ==
    /\ opts # NoOptions =>
          /\ Len(git_args(opts)) >= 1
          /\ git_args(opts)[1] = Subcommand(opts.kind)
    /\ args # None =>
          /\ Len(args[1]) >= 1
          /\ args[1][1] = Subcommand(opts.kind)
          /\ args[1] = ExpectedArgs

\* git_args() was called on an AddOptions whose pathspecs were added first,
\* then the chmod flag set, then the all flag: the arguments are those of the
\* test, in the test's order.
C15_Witness ==
    /\ opts.kind = "AddOptions"
    /\ Len(calls) = 4
    /\ calls[2].f = "pathspecs" /\ calls[2].v = <<"foo", "bar">>
    /\ calls[3].f = "chmod" /\ calls[3].v = TRUE
    /\ calls[4].f = "all" /\ calls[4].v = TRUE
    /\ args = Some(<<"add", "--all", "--chmod=+x", "foo", "bar">>)

\* The '1', '2' and 'u' lines among BaseLines.
FixedWidthLines == {l \in BaseLines : Char(l, 1) \in {"1", "2", "u"}}

\* The positions of the separators that follow the fixed-width fields of
\* such a line: after <XY>, after <sub> and after each mode.
SeparatorPositions(l) ==
    IF Char(l, 1) = "u" THEN {5, 10, 17, 24, 31, 38} ELSE {5, 10, 17, 24, 31}

\* C16: a '1', '2' or 'u' line in which the character after a fixed-width
\* field is not a space is rejected with an error.
C16_SeparatorRequired ==
    eret.kind # "none" =>
        \A l \in FixedWidthLines :
            \A i \in SeparatorPositions(l), c \in {"x", "9"} :
                (Char(l, i) = " " /\ etxt = Replace(l, i, c)) => eret.kind = "err"

\* The position of the separator after the last mode of a '1', '2' or 'u'
\* line.
LastSeparator(l) == IF Char(l, 1) = "u" THEN 38 ELSE 31

\* t is the line l cut inside one of its fixed-width fields or just before
\* the separator that follows one.
CutInFixedWidth(t, l) ==
    /\ Len(t) >= 2
    /\ Len(t) < LastSeparator(l)
    /\ t = SubSeq(l, 1, Len(t))

\* C17: Entry::try_from never panics, alone or under Status::try_from: when
\* copy_from_slice is reached the slice has six characters.  A '1', '2' or
\* 'u' line that ends inside its status code, its submodule code or one of
\* its modes, or before the separator after one of them, gives the error
\* `bad entry format`.
C17_TruncatedIsError ==
    /\ eret.kind # "panic"
    /\ ret.kind # "panic"
    /\ eret.kind # "none" =>
          \A l \in FixedWidthLines :
              CutInFixedWidth(etxt, l) =>
                  eret = [kind |-> "err", msg |-> BadEntryFormat]

\* A 'u' line that ends four characters into its worktree mode was rejected.
C17_Witness ==
    /\ etxt = "u MM N... 000000 100644 100644 1007"
    /\ \E l \in FixedWidthLines : CutInFixedWidth(etxt, l)
    /\ eret.kind = "err"

\* One or more decimal digits.
IsDigits(s) == s # "" /\ \A i \in 1..Len(s) : IsDigit(Char(s, i))

\* A `# branch.ab` line, and what follows `branch.ab ` in it.
IsAbLine(l) == Len(l) >= 12 /\ SubSeq(l, 1, 12) = "# branch.ab "
AbRest(l) == From(l, 13)

\* The text is exactly +<uint> -<uint>: a '+', digits, one space, a '-',
\* digits.
ExactAb(rest) ==
    \E k \in 1..Len(rest) :
        /\ Char(rest, k) = " "
        /\ LET a == SubSeq(rest, 1, k - 1)
               b == From(rest, k + 1)
           IN  /\ a # "" /\ Char(a, 1) = "+" /\ IsDigits(From(a, 2))
               /\ b # "" /\ Char(b, 1) = "-" /\ IsDigits(From(b, 2))

\* C18: a `# branch.ab` line whose remainder is not exactly +<uint> -<uint>
\* is where Status::try_from stops, with an error.
C18_AbExact ==
    \A i \in 1..Len(lines) :
        (IsAbLine(lines[i]) /\ ~ExactAb(AbRest(lines[i]))) =>
            (i = Len(lines) /\ ret.kind = "err")

\* The four sub-kinds of a '#' line.
InfoKinds == {"branch.oid", "branch.head", "branch.upstream", "branch.ab"}

\* A '#' line whose marker is followed by a space and one of the sub-kinds.
WellFormedInfo(l) ==
    /\ Marker(l) = Some("#")
    /\ Len(l) >= 2
    /\ Char(l, 2) = " "
    /\ InfoKind(l) \in InfoKinds

\* C19: a '#' line without a space after the marker, or with a sub-kind that
\* is none of the four, is where Status::try_from stops, with an error.
C19_InfoWellFormed ==
    \A i \in 1..Len(lines) :
        (Marker(lines[i]) = Some("#") /\ ~WellFormedInfo(lines[i])) =>
            (i = Len(lines) /\ ret.kind = "err")

\* Where the score of a ScoreLine starts: after `2 <XY> <sub> <mH> <mI> <mW>
\* <hH> <hI> `.
ScoreStart == Len("2 R. N... 100644 100644 100644 288d 288d ") + 1

\* The score token of the line t: what follows <X> up to the next whitespace.
ScoreToken(t) == FirstToken(From(t, ScoreStart + 1))

\* Entry::try_from was called on a '2' line whose score is <X> and one of
\* ScoreTokens.
ParsedScore ==
    /\ eret.kind # "none"
    /\ Len(etxt) > ScoreStart
    /\ Char(etxt, ScoreStart) \in {"R", "C"}
    /\ ScoreToken(etxt) \in ScoreTokens
    /\ etxt = ScoreLine(Char(etxt, ScoreStart), ScoreToken(etxt))

\* The token is a number: digits, after at most one '+'.
IsNumber(t) ==
    IsDigits(t) \/ (t # "" /\ Char(t, 1) = "+" /\ IsDigits(From(t, 2)))

\* The number a token denotes is at most 255.  (Its digits without leading
\* zeros are at most three, so the value is computed without overflow.)
UpTo255(t) ==
    LET d == StripZeros(IF Char(t, 1) = "+" THEN From(t, 2) ELSE t)
    IN  Len(d) <= 3 /\ DecimalValue(d) <= 255

Returned(fmt) == eret.kind = "ok" /\ eret.val.format = fmt

\* C21: every entry Entry::try_from returns for a '2' line has a score in
\* 0..100 and a rename/copy marker that is 'R' or 'C'.
C21_ScorePercentage ==
    Returned("2") =>
        /\ eret.val.score[2] \in 0..100
        /\ eret.val.score[1] \in {"R", "C"}

\* The octal digits, and a mode made of six of them.
IsOctal(c) == c \in {"0", "1", "2", "3", "4", "5", "6", "7"}
IsOctalMode(fm) == Len(fm) = 6 /\ \A i \in 1..6 : IsOctal(Char(fm, i))

\* C22: in every entry Entry::try_from returns, each mode the decoder has
\* populated is six octal digits: the HEAD, index and worktree modes of a
\* '1' or '2' line, the three stage modes and the worktree mode of a 'u' line.
C22_OctalModes ==
    /\ (Returned("1") \/ Returned("2")) =>
          \A i \in 1..3 : IsOctalMode(eret.val.file_mode[i])
    /\ Returned("u") =>
          /\ IsOctalMode(eret.val.stage1[2])
          /\ IsOctalMode(eret.val.stage2[2])
          /\ IsOctalMode(eret.val.stage3[2])
          /\ IsOctalMode(eret.val.file_mode[3])

\* The status codes of the index and the work tree.
StatusCodes == {".", "M", "A", "D", "R", "C", "U"}

\* C23: in every entry Entry::try_from returns for a '1', '2' or 'u' line,
\* the index status and the worktree status are each one of StatusCodes.
C23_StatusCodes ==
    (Returned("1") \/ Returned("2") \/ Returned("u")) =>
        /\ eret.val.status[1] \in StatusCodes
        /\ eret.val.status[2] \in StatusCodes

\* What is left of the text t after its first k tokens, each with the one
\* whitespace character that ends it.
RECURSIVE AfterTokens(_, _)
AfterTokens(t, k) ==
    IF k = 0 THEN t
    ELSE AfterTokens(From(t, FirstWhitespace(t) + 1), k - 1)

\* The text of a '1' line that follows `1 <XY> <sub> <mH> <mI> <mW> `, the two
\* object ids and the separator after each.
Remainder1(t) == AfterTokens(From(t, 32), 2)

\* C24: the path of a '1' line is all the text after the separator that
\* follows the index object id, unchanged, spaces and tabs included, and it
\* is the last field: the line ends with it and nothing is decoded after it.
C24_ChangedPathVerbatim ==
    /\ Returned("1") =>
          /\ eret.val.path = Remainder1(etxt)
          /\ etxt = SubSeq(etxt, 1, Len(etxt) - Len(eret.val.path)) \o eret.val.path
          /\ eret.val.orig_path = ""
    /\ (eret.kind # "none" /\ Marker(etxt) = Some("1")) =>
          \A p \in Paths :
              etxt = "1 .M N... 100644 100644 100644 0000 df6d " \o p =>
                  eret.kind = "ok" /\ eret.val.path = p

\* A '1' line whose path holds a tab was decoded with the path whole.
C24_Witness ==
    /\ Returned("1")
    /\ etxt = "1 .M N... 100644 100644 100644 0000 df6d a\tb"
    /\ eret.val.path = "a\tb"

\* C25: the path of a 'u' line is all the text after the separator that
\* follows the stage-3 object id, unchanged: a path with spaces is kept
\* whole.
C25_UnmergedPathVerbatim ==
    (eret.kind # "none" /\ Marker(etxt) = Some("u")) =>
        \A f \in FieldsU :
            ParsedU(f) => (eret.kind = "ok" /\ eret.val.path = f.path)

\* What a step of Status::try_from that reads the line l may do, given what
\* Entry::try_from returns for l alone: push that entry (for '?' and '!'
\* its path) onto the collection of l's marker and onto no other, or fail
\* when Entry::try_from fails, leaving every collection as it was.
ReadsAlone(l) ==
    LET alone == EntryTryFrom(l)
        m     == Marker(l)
        pushed ==
            CASE m = Some("1") ->
                   [status EXCEPT !.changed = Append(@, alone.val)]
              [] m = Some("2") ->
                   [status EXCEPT !.renamed = Append(@, alone.val)]
              [] m = Some("?") ->
                   [status EXCEPT !.untracked = Append(@, alone.val.path)]
              [] m = Some("!") ->
                   [status EXCEPT !.ignored = Append(@, alone.val.path)]
    IN  IF m \in {Some("1"), Some("2"), Some("?"), Some("!")}
        THEN IF alone.kind = "ok"
             THEN ret' = ret /\ status' = pushed
             ELSE ret'.kind = "err" /\ status' = status
        ELSE /\ status'.changed = status.changed
             /\ status'.renamed = status.renamed
             /\ status'.untracked = status.untracked
             /\ status'.ignored = status.ignored

\* C26: decoding a line does not depend on the other lines.  Whatever was
\* read before, the step that reads a '1' or '2' line appends the entry that
\* Entry::try_from returns for the line alone, the step that reads a '?' or
\* '!' line appends the path Entry::try_from gives for it alone, and no step
\* touches what earlier lines have appended.
C26_LineAlone ==
    [][Len(lines') = Len(lines) + 1 => ReadsAlone(lines'[Len(lines')])]_vars

\* A '2' line was read between an untracked and an ignored line, and the
\* entry stored for it is the one Entry::try_from returns for it alone.
C26_Witness ==
    /\ ret.kind = "ok"
    /\ lines = <<"? LICENSE~",
                 "2 R. N... 100644 100644 100644 288d 288d R100 LICENSE\tLICENSE~",
                 "! idir/">>
    /\ ret.val.renamed = <<EntryTryFrom(lines[2]).val>>
    /\ ret.val.untracked = <<"LICENSE~">>

\* The step reads one more line.
ReadsLine == Len(lines') = Len(lines) + 1

\* The line a ReadsLine step reads.
LineRead == lines'[Len(lines')]

\* The step leaves everything of the accumulator but the upstream name as
\* it was.
OnlyUpstreamName ==
    /\ status'.upstream[2] = status.upstream[2]
    /\ status'.upstream[3] = status.upstream[3]
    /\ status'.branch = status.branch
    /\ status'.changed = status.changed
    /\ status'.renamed = status.renamed
    /\ status'.untracked = status.untracked
    /\ status'.ignored = status.ignored

\* C27: the step that reads a `# branch.upstream <name>` line changes
\* nothing of the accumulator but the upstream name, which becomes <name>;
\* the two counts, the branch commit id and head and the four collections
\* stay, and a step that changes a count has read a `# branch.ab` line.
C27_UpstreamOnlyName ==
    [][ReadsLine =>
         /\ IsInfo(LineRead, "branch.upstream") =>
               /\ OnlyUpstreamName
               /\ status'.upstream[1] = FirstToken(From(LineRead, 19))
         /\ (\/ status'.upstream[2] # status.upstream[2]
             \/ status'.upstream[3] # status.upstream[3]) =>
               IsInfo(LineRead, "branch.ab")]_vars

\* `# branch.upstream origin/master` was read after `# branch.ab +2 -3`:
\* the name is set and the counts are still 2 and 3.
C27_Witness ==
    /\ lines = <<"# branch.ab +2 -3", "# branch.upstream origin/master">>
    /\ status.upstream = <<"origin/master", 2, 3>>

\* How many of the six kind predicates hold of the entry e.
KindsOf(e) ==
    LET p == <<is_changed(e), is_renamed(e), is_copied(e),
               is_unmerged(e), is_untracked(e), is_ignored(e)>>
    IN  Cardinality({k \in 1..6 : p[k]})

\* C28: every entry Entry::try_from returns satisfies exactly one of
\* is_changed(), is_renamed(), is_copied(), is_unmerged(), is_untracked()
\* and is_ignored(); every entry stored in `renamed` satisfies is_renamed()
\* or is_copied() and every entry stored in `changed` satisfies is_changed().
C28_OneKind ==
    /\ eret.kind = "ok" => KindsOf(eret.val) = 1
    /\ \A i \in 1..Len(status.renamed) :
          is_renamed(status.renamed[i]) \/ is_copied(status.renamed[i])
    /\ \A i \in 1..Len(status.changed) : is_changed(status.changed[i])

\* The `# branch.upstream` lines read, if any, all carry an empty name.
NoUpstreamName ==
    \A i \in 1..Len(WithInfo("branch.upstream")) :
        WithInfo("branch.upstream")[i] = UpstreamLine("")

\* C29: the counts are observable only together with an upstream name.
\* After a report with a `# branch.ab +<a> -<b>` line and no
\* `# branch.upstream` line, or only ones with an empty name, the counts
\* are stored but upstream_ahead() and upstream_behind() return None; after
\* a report with `# branch.upstream <name>` and no `# branch.ab` line both
\* return Some(0).
C29_CountsNeedName ==
    /\ \A ab \in ABs :
          (/\ ret.kind = "ok"
           /\ NoUpstreamName
           /\ WithInfo("branch.ab") = <<AbLine(ab)>>) =>
             /\ ret.val.upstream = <<"", ab[1].value, ab[2].value>>
             /\ upstream_ahead(ret.val) = None
             /\ upstream_behind(ret.val) = None
    /\ \A name \in UpstreamNames :
          (/\ ret.kind = "ok"
           /\ WithInfo("branch.upstream") = <<UpstreamLine(name)>>
           /\ WithInfo("branch.ab") = <<>>) =>
             /\ upstream_ahead(ret.val) = Some(0)
             /\ upstream_behind(ret.val) = Some(0)

\* A report with an empty upstream name and `# branch.ab +2 -3` was parsed:
\* the counts are stored and both accessors return None.
C29_Witness ==
    /\ ret.kind = "ok"
    /\ lines = <<UpstreamLine(""), "# branch.ab +2 -3">>
    /\ ret.val.upstream[2] = 2 /\ ret.val.upstream[3] = 3
    /\ upstream_ahead(ret.val) = None
    /\ upstream_behind(ret.val) = None

====
